---------------------------- MODULE Spec2Model ----------------------------
(***************************************************************************)
(* Retirement portfolio Monte Carlo simulation (src/main.py and            *)
(* src/monte-carlo-simulation.py).                                         *)
(*                                                                         *)
(* Real numbers are exact rationals <<n, d>> in lowest terms with d > 0.   *)
(* The results of a division by zero are <<1, 0>> (inf), <<-1, 0>> (-inf)  *)
(* and <<0, 0>> (nan), as numpy produces them.  Floating-point rounding is *)
(* not modelled.  Python row index t of portfolio_values is row t + 1 of   *)
(* the sequence that models the matrix.                                    *)
(***************************************************************************)
EXTENDS Integers, Sequences, FiniteSets, TLC

VARIABLES
    caller,   \* who calls monte_carlo_simulation, with the ages it read
    config,   \* the eight arguments of monte_carlo_simulation
    run,      \* the locals of the call in progress and the draws it made
    report,   \* what the reporting code derived from the returned result
    twin,     \* a second call with the same arguments (SpecPair only)
    focus     \* the path on which both calls draw the same samples

vars == <<caller, config, run, report, twin, focus>>

-----------------------------------------------------------------------------
(* Bounds of the model *)

MaxYears == 3

MaxPaths == 2

-----------------------------------------------------------------------------
(* Arithmetic on rationals *)

Abs(n) == IF n < 0 THEN -n ELSE n

Sign(n) == IF n < 0 THEN -1 ELSE IF n = 0 THEN 0 ELSE 1

RECURSIVE GCD(_, _)
GCD(a, b) == IF b = 0 THEN a ELSE GCD(b, a % b)

Rat(n, d) ==
    IF d = 0 THEN <<Sign(n), 0>>
    ELSE LET g == GCD(Abs(n), Abs(d))
         IN  <<Sign(d) * (n \div g), Abs(d) \div g>>

Zero == <<0, 1>>

One == <<1, 1>>

Inf == <<1, 0>>

NegInf == <<-1, 0>>

NaN == <<0, 0>>

Plus(a, b) == Rat(a[1] * b[2] + b[1] * a[2], a[2] * b[2])

Minus(a, b) == Rat(a[1] * b[2] - b[1] * a[2], a[2] * b[2])

Times(a, b) == Rat(a[1] * b[1], a[2] * b[2])

Over(a, b) == Rat(a[1] * b[2], a[2] * b[1])

Less(a, b) == a[2] # 0 /\ b[2] # 0 /\ a[1] * b[2] < b[1] * a[2]

LessEq(a, b) == a[2] # 0 /\ b[2] # 0 /\ a[1] * b[2] <= b[1] * a[2]

Maximum(a, b) == IF Less(a, b) THEN b ELSE a

-----------------------------------------------------------------------------
(* The random source *)

\* standard-normal samples the returns generator may produce
ReturnSamples == {-1, 1}

\* standard-normal samples the growth-rate generator may produce
GrowthSamples == {-2, -1, 1}

\* np.random.normal(mean, std, n): each sample is mean + std * z
Normal(mean, std, samples, n) ==
    [1..n -> {Plus(mean, Times(std, Rat(z, 1))) : z \in samples}]

-----------------------------------------------------------------------------
(* Configurations *)

Config(ii, rm, rs, ny, ns, wv, im, is) ==
    [initial_investment |-> ii, returns_mean |-> rm, returns_std |-> rs,
     num_years |-> ny, num_simulations |-> ns, withdrawal_value |-> wv,
     inflation_mean |-> im, inflation_std |-> is]

\* the default of the "Current Age" input
DefaultAge == 50

\* the horizon the page derives from the two age inputs
NumYears(age, retirement_age) == retirement_age - age

\* <<returns_std, inflation_std>>
Volatilities ==
    {<<Zero, Zero>>, <<Rat(1, 2), Zero>>, <<Zero, One>>}

\* <<initial_investment, returns_mean>>; the mean return of an empty
\* portfolio changes nothing
Funds ==
    {<<Zero, Zero>>, <<Rat(100, 1), Zero>>, <<Rat(100, 1), Rat(1, 2)>>}

\* configurations the page passes: the life-expectancy input is at least
\* the current age, so the horizon is never negative but may be zero
MainConfigs(age, retirement_age) ==
    {Config(f[1], f[2], v[1], NumYears(age, retirement_age), ns, Rat(60, 1), im, v[2]) :
        f \in Funds, v \in Volatilities, ns \in 1..MaxPaths,
        im \in {Zero, Rat(1, 10)}}

Scenario1 ==
    Config(Rat(100000, 1), Zero, Zero, 3, 1, Rat(10000, 1), Zero, Zero)

Scenario2 ==
    Config(Rat(100000, 1), Zero, Zero, 3, 1, Rat(10000, 1), Rat(1, 10), Zero)

\* configurations of a direct call of the function
DirectConfigs ==
    {Scenario1, Scenario2}
    \cup {Config(Rat(100, 1), rm, Rat(1, 2), 3, 2, Rat(60, 1), im, One) :
            rm \in {Zero, Rat(1, 2)}, im \in {Zero, Rat(1, 10)}}
    \cup {Config(ii, Zero, Zero, 3, 1, Rat(-60, 1), Zero, Zero) :
            ii \in {Zero, Rat(100, 1)}}
    \cup {Config(Rat(100, 1), Zero, Zero, -1, 1, Rat(60, 1), Zero, One),
          Config(Rat(100, 1), Zero, Zero, 3, -1, Rat(60, 1), Zero, One),
          Config(Rat(100, 1), Zero, Zero, 3, 0, Rat(60, 1), Zero, One),
          Config(Rat(100, 1), Zero, Zero, 0, 0, Rat(60, 1), Zero, One),
          Config(Rat(-100, 1), Zero, Rat(1, 2), 3, 1, Rat(60, 1), Zero, Zero),
          Config(Rat(-100, 1), Zero, Zero, 3, 1, Rat(60, 1), Zero, One)}

\* configurations of the two calls that are compared path by path
PairConfigs ==
    {Config(Rat(100, 1), Zero, v[1], ny, 2, Rat(60, 1), Zero, v[2]) :
        v \in {<<Rat(1, 2), Zero>>, <<Zero, One>>}, ny \in 1..MaxYears}
    \cup {Config(Rat(100, 1), Zero, Rat(1, 2), 3, 2, Rat(60, 1), Zero, One)}

Valid(c) ==
    /\ c.num_years >= 1
    /\ c.num_simulations >= 1
    /\ LessEq(Zero, c.initial_investment)

-----------------------------------------------------------------------------
(* monte_carlo_simulation *)

\* the call before its first statement
Called ==
    [pc |-> "call", raised |-> "none", shape |-> <<>>, i |-> 0,
     portfolio_values |-> <<>>, withdrawals |-> <<>>,
     cumulative_inflation_factors |-> <<>>,
     annual_returns |-> <<>>, withdrawal_growth_rates |-> <<>>]

\* np.zeros((num_years, num_simulations))
Zeros(rows, cols) == [t \in 1..rows |-> [p \in 1..cols |-> Zero]]

\* SetRowZero with the assignment of row 0 left out
SetRowZeroSkipped(matrix, value) == matrix

\* portfolio_values[0, :] = initial_investment
SetRowZero(matrix, value) ==
    [matrix EXCEPT ![1] = [p \in 1..Len(matrix[1]) |-> value]]

\* the statements before the loop.  np.zeros rejects a negative dimension
\* with a ValueError; row 0 of a matrix without rows is an IndexError.
Allocate(r) ==
    IF config.num_years < 0 \/ config.num_simulations < 0
    THEN [r EXCEPT !.pc = "raised", !.raised = "ValueError"]
    ELSE IF config.num_years = 0
    THEN [r EXCEPT !.pc = "raised", !.raised = "IndexError",
                   !.shape = <<0, config.num_simulations>>]
    ELSE [r EXCEPT
            !.pc = "loop",
            !.i = 1,
            !.shape = <<config.num_years, config.num_simulations>>,
            !.portfolio_values =
                SetRowZero(Zeros(config.num_years, config.num_simulations),
                           config.initial_investment),
            !.withdrawals =
                [p \in 1..config.num_simulations |-> config.withdrawal_value],
            !.cumulative_inflation_factors =
                [p \in 1..config.num_simulations |-> One]]

\* GrowAndWithdraw subtracting the first path's withdrawal from every path
GrowAndWithdrawBroadcast(previous, annual_returns, withdrawals) ==
    [p \in 1..Len(previous) |->
        Minus(Times(previous[p], Plus(One, annual_returns[p])), withdrawals[1])]

\* GrowAndWithdraw adding the withdrawal instead of subtracting it
GrowAndWithdrawSignSlip(previous, annual_returns, withdrawals) ==
    [p \in 1..Len(previous) |->
        Plus(Times(previous[p], Plus(One, annual_returns[p])), withdrawals[p])]

\* portfolio_values[i - 1, :] * (1 + annual_returns) - withdrawals
GrowAndWithdraw(previous, annual_returns, withdrawals) ==
    [p \in 1..Len(previous) |->
        Minus(Times(previous[p], Plus(One, annual_returns[p])), withdrawals[p])]

\* Clamp left out
ClampOmitted(row) == row

\* np.maximum(portfolio_values[i, :], 0)
Clamp(row) == [p \in 1..Len(row) |-> Maximum(row[p], Zero)]

\* withdrawals *= (1 + withdrawal_growth_rates)
NextWithdrawals(withdrawals, withdrawal_growth_rates) ==
    [p \in 1..Len(withdrawals) |->
        Times(withdrawals[p], Plus(One, withdrawal_growth_rates[p]))]

\* NextCumulative multiplying by the rate instead of by 1 + rate
NextCumulativeByRate(factors, withdrawal_growth_rates) ==
    [p \in 1..Len(factors) |-> Times(factors[p], withdrawal_growth_rates[p])]

\* cumulative_inflation_factors *= (1 + withdrawal_growth_rates)
NextCumulative(factors, withdrawal_growth_rates) ==
    [p \in 1..Len(factors) |->
        Times(factors[p], Plus(One, withdrawal_growth_rates[p]))]

\* YearStepOf growing the withdrawal before it is subtracted
YearStepOfGrowthFirst(r, annual_returns, withdrawal_growth_rates) ==
    [r EXCEPT
        !.portfolio_values[r.i + 1] =
            Clamp(GrowAndWithdraw(r.portfolio_values[r.i], annual_returns,
                    NextWithdrawals(r.withdrawals, withdrawal_growth_rates))),
        !.withdrawals = NextWithdrawals(r.withdrawals, withdrawal_growth_rates),
        !.cumulative_inflation_factors =
            NextCumulative(r.cumulative_inflation_factors, withdrawal_growth_rates),
        !.annual_returns = Append(r.annual_returns, annual_returns),
        !.withdrawal_growth_rates =
            Append(r.withdrawal_growth_rates, withdrawal_growth_rates),
        !.i = r.i + 1]

\* one pass of the loop body for year r.i with the samples drawn in it
YearStepOf(r, annual_returns, withdrawal_growth_rates) ==
    [r EXCEPT
        !.portfolio_values[r.i + 1] =
            Clamp(GrowAndWithdraw(r.portfolio_values[r.i], annual_returns,
                                  r.withdrawals)),
        !.withdrawals = NextWithdrawals(r.withdrawals, withdrawal_growth_rates),
        !.cumulative_inflation_factors =
            NextCumulative(r.cumulative_inflation_factors, withdrawal_growth_rates),
        !.annual_returns = Append(r.annual_returns, annual_returns),
        !.withdrawal_growth_rates =
            Append(r.withdrawal_growth_rates, withdrawal_growth_rates),
        !.i = r.i + 1]

\* range(1, num_years) has another year
InLoop(r) == r.pc = "loop" /\ r.i < config.num_years

\* range(1, num_years) is exhausted
LoopDone(r) == r.pc = "loop" /\ r.i >= config.num_years

ReturnsDraws ==
    Normal(config.returns_mean, config.returns_std, ReturnSamples,
           config.num_simulations)

GrowthDraws ==
    Normal(config.inflation_mean, config.inflation_std, GrowthSamples,
           config.num_simulations)

-----------------------------------------------------------------------------
(* Reporting *)

NotReported ==
    [final_portfolio_values |-> <<>>, final_portfolio_values_real |-> <<>>,
     success_rate |-> <<>>]

\* simulated_portfolios[-1, :]
LastRow(matrix) == matrix[Len(matrix)]

\* Deflate dividing every path by the first path's factor
DeflateByFirst(values, factors) ==
    [p \in 1..Len(values) |-> Over(values[p], factors[1])]

\* final_portfolio_values / cumulative_inflation_factors
Deflate(values, factors) ==
    [p \in 1..Len(values) |-> Over(values[p], factors[p])]

\* np.mean(final_portfolio_values > 0) * 100
SuccessRate(values) ==
    Rat(100 * Cardinality({p \in 1..Len(values) : Less(Zero, values[p])}),
        Len(values))

-----------------------------------------------------------------------------
(* Actions of one call *)

Call ==
    /\ run.pc = "call"
    /\ run' = Allocate(run)
    /\ UNCHANGED <<caller, config, report, twin, focus>>

\* YearStep drawing a second sample for the cumulative inflation factors
YearStepTwoDraws ==
    /\ InLoop(run)
    /\ \E annual_returns \in ReturnsDraws, withdrawal_growth_rates \in GrowthDraws,
          second_draw \in GrowthDraws :
            run' = [YearStepOf(run, annual_returns, withdrawal_growth_rates) EXCEPT
                        !.cumulative_inflation_factors =
                            NextCumulative(run.cumulative_inflation_factors,
                                           second_draw)]
    /\ UNCHANGED <<caller, config, report, twin, focus>>

YearStep ==
    /\ InLoop(run)
    /\ \E annual_returns \in ReturnsDraws, withdrawal_growth_rates \in GrowthDraws :
            run' = YearStepOf(run, annual_returns, withdrawal_growth_rates)
    /\ UNCHANGED <<caller, config, report, twin, focus>>

Return ==
    /\ LoopDone(run)
    /\ run' = [run EXCEPT !.pc = "returned"]
    /\ UNCHANGED <<caller, config, report, twin, focus>>

Report ==
    /\ run.pc = "returned"
    /\ run' = [run EXCEPT !.pc = "reported"]
    /\ report' =
         [final_portfolio_values |-> LastRow(run.portfolio_values),
          final_portfolio_values_real |->
              Deflate(LastRow(run.portfolio_values),
                      run.cumulative_inflation_factors),
          success_rate |-> SuccessRate(LastRow(run.portfolio_values))]
    /\ UNCHANGED <<caller, config, twin, focus>>

InitMain ==
    \E age \in {DefaultAge}, retirement_age \in DefaultAge..(DefaultAge + MaxYears) :
        /\ caller = [script |-> "main.py", age |-> age,
                     retirement_age |-> retirement_age]
        /\ config \in MainConfigs(age, retirement_age)

InitDirect ==
    /\ caller = [script |-> "direct"]
    /\ config \in DirectConfigs

Init ==
    /\ InitMain \/ InitDirect
    /\ run = Called
    /\ report = NotReported
    /\ twin = Called
    /\ focus = 0

Next == Call \/ YearStep \/ Return \/ Report

Spec == Init /\ [][Next]_vars

-----------------------------------------------------------------------------
(* Two calls with the same configuration that draw the same samples on     *)
(* path focus and arbitrary samples on every other path                    *)

PairCall ==
    /\ run.pc = "call"
    /\ run' = Allocate(run)
    /\ twin' = Allocate(twin)
    /\ UNCHANGED <<caller, config, report, focus>>

PairYearStep ==
    /\ InLoop(run)
    /\ InLoop(twin)
    /\ \E annual_returns \in ReturnsDraws, withdrawal_growth_rates \in GrowthDraws,
          twin_returns \in ReturnsDraws, twin_growth_rates \in GrowthDraws :
            /\ twin_returns[focus] = annual_returns[focus]
            /\ twin_growth_rates[focus] = withdrawal_growth_rates[focus]
            /\ run' = YearStepOf(run, annual_returns, withdrawal_growth_rates)
            /\ twin' = YearStepOf(twin, twin_returns, twin_growth_rates)
    /\ UNCHANGED <<caller, config, report, focus>>

PairReturn ==
    /\ LoopDone(run)
    /\ LoopDone(twin)
    /\ run' = [run EXCEPT !.pc = "returned"]
    /\ twin' = [twin EXCEPT !.pc = "returned"]
    /\ UNCHANGED <<caller, config, report, focus>>

InitPair ==
    /\ caller = [script |-> "direct"]
    /\ config \in PairConfigs
    /\ focus \in 1..config.num_simulations
    /\ run = Called
    /\ twin = Called
    /\ report = NotReported

NextPair == PairCall \/ PairYearStep \/ PairReturn

SpecPair == InitPair /\ [][NextPair]_vars

-----------------------------------------------------------------------------
(* Properties *)

Started(r) == r.pc \in {"loop", "returned", "reported"}

Finished(r) == r.pc \in {"returned", "reported"}

Paths == 1..config.num_simulations

MinusOne == <<-1, 1>>

\* the growth rates drawn so far for path p
GrowthRatesOf(r, p) ==
    {r.withdrawal_growth_rates[t][p] : t \in 1..Len(r.withdrawal_growth_rates)}

RatesAtLeastMinusOne(r, p) == \A g \in GrowthRatesOf(r, p) : LessEq(MinusOne, g)

RatesAboveMinusOne(r, p) == \A g \in GrowthRatesOf(r, p) : Less(MinusOne, g)

\* the product of 1 + rate over the first t growth rates drawn for path p
RECURSIVE Compound(_, _, _)
Compound(r, p, t) ==
    IF t = 0 THEN One
    ELSE Times(Compound(r, p, t - 1), Plus(One, r.withdrawal_growth_rates[t][p]))

RECURSIVE Power(_, _)
Power(base, n) == IF n = 0 THEN One ELSE Times(Power(base, n - 1), base)

\* w[t] of the deterministic recurrence
DetWithdrawal(t) ==
    Times(config.withdrawal_value, Power(Plus(One, config.inflation_mean), t))

\* v[t] of the deterministic recurrence
RECURSIVE DetValue(_)
DetValue(t) ==
    IF t = 0 THEN config.initial_investment
    ELSE Maximum(Minus(Times(DetValue(t - 1), Plus(One, config.returns_mean)),
                       DetWithdrawal(t - 1)),
                 Zero)

Column(matrix, p) == [t \in 1..Len(matrix) |-> matrix[t][p]]

Whole(seq) == [t \in 1..Len(seq) |-> Rat(seq[t], 1)]

\* C1: for a valid configuration every entry of the value matrix is >= 0,
\* in every state of the call, so after every year-step and on return.
C1_ValuesNonNegative ==
    Valid(config) =>
        \A t \in 1..Len(run.portfolio_values) :
            \A p \in 1..Len(run.portfolio_values[t]) :
                LessEq(Zero, run.portfolio_values[t][p])

\* a returned path that was positive one year and clamped to zero the next
C1_Witness ==
    /\ Valid(config)
    /\ run.pc = "returned"
    /\ \E p \in Paths : \E t \in 2..config.num_years :
          /\ Less(Zero, run.portfolio_values[t - 1][p])
          /\ run.portfolio_values[t][p] = Zero

\* C2: an invalid configuration fails with a configuration error before any
\* computation: the call never gets past its entry, raises nothing but a
\* configuration error, and allocates no matrix.
C2_InvalidConfigurationFailsFast ==
    ~Valid(config) =>
        /\ run.pc \in {"call", "raised"}
        /\ run.raised \in {"none", "ConfigurationError"}
        /\ run.shape = <<>>

\* C3: for a valid configuration the matrix has num_years rows of
\* num_simulations entries and row 0 is the initial investment on every path,
\* from allocation to return, whatever was drawn.
C3_ShapeAndRowZero ==
    (Valid(config) /\ Started(run)) =>
        /\ run.shape = <<config.num_years, config.num_simulations>>
        /\ Len(run.portfolio_values) = config.num_years
        /\ \A t \in 1..Len(run.portfolio_values) :
              Len(run.portfolio_values[t]) = config.num_simulations
        /\ \A p \in Paths : run.portfolio_values[1][p] = config.initial_investment

\* a returned matrix of several rows and paths whose paths drew differently
C3_Witness ==
    /\ Valid(config)
    /\ Finished(run)
    /\ config.num_years >= 2
    /\ config.num_simulations >= 2
    /\ Less(Zero, config.initial_investment)
    /\ run.withdrawal_growth_rates[1][1] # run.withdrawal_growth_rates[1][2]
    /\ run.portfolio_values[2][1] # run.portfolio_values[2][2]

ZeroVolatility == config.returns_std = Zero /\ config.inflation_std = Zero

\* C4: with both volatilities zero every path follows
\* v[t] = max(v[t-1] * (1 + returns_mean) - w[t-1], 0) with
\* w[t] = w[t-1] * (1 + inflation_mean), the withdrawal in hand for the next
\* year is w[i-1], and the returned factor is (1 + inflation_mean)^(years-1);
\* the two scenarios of the specification give the stated numbers.
C4_ZeroVolatilityRecurrence ==
    /\ (ZeroVolatility /\ Started(run)) =>
          \A p \in Paths :
              /\ \A t \in 0..(run.i - 1) : run.portfolio_values[t + 1][p] = DetValue(t)
              /\ run.withdrawals[p] = DetWithdrawal(run.i - 1)
              /\ Finished(run) =>
                    run.cumulative_inflation_factors[p] =
                        Power(Plus(One, config.inflation_mean), config.num_years - 1)
    /\ (config = Scenario1 /\ Finished(run)) =>
          /\ Column(run.portfolio_values, 1) = Whole(<<100000, 90000, 80000>>)
          /\ run.cumulative_inflation_factors = <<One>>
    /\ (config = Scenario2 /\ Started(run)) =>
          /\ run.i = 1 => run.withdrawals = Whole(<<10000>>)
          /\ run.i = 2 => run.withdrawals = Whole(<<11000>>)
          /\ Finished(run) =>
                /\ Column(run.portfolio_values, 1) = Whole(<<100000, 90000, 79000>>)
                /\ run.cumulative_inflation_factors = <<Rat(121, 100)>>

\* the second scenario has returned
C4_Witness ==
    /\ config = Scenario2
    /\ run.pc = "returned"
    /\ run.i = 3
    /\ run.portfolio_values[3][1] = Rat(79000, 1)

\* C5: after every year-step the withdrawal and the cumulative inflation
\* factor of a path are compounded from the same logged samples, so the
\* withdrawal is the initial withdrawal times the path's factor.
C5_WithdrawalTracksInflation ==
    Started(run) =>
        \A p \in Paths :
            /\ run.cumulative_inflation_factors[p] = Compound(run, p, run.i - 1)
            /\ run.withdrawals[p] =
                  Times(config.withdrawal_value, Compound(run, p, run.i - 1))
            /\ run.withdrawals[p] =
                  Times(config.withdrawal_value, run.cumulative_inflation_factors[p])

\* two year-steps were taken and two paths compounded differently
C5_Witness ==
    /\ Started(run)
    /\ run.i >= 3
    /\ \E p \in Paths : \E q \in Paths :
          /\ run.cumulative_inflation_factors[p] # run.cumulative_inflation_factors[q]
          /\ run.cumulative_inflation_factors[p] \notin {Zero, One}
          /\ run.withdrawals[p] # config.withdrawal_value

\* C6 as stated: for a valid configuration every entry of the inflation
\* factor vector is >= 0 whatever growth rates are drawn.
C6_FactorNonNegative ==
    (Valid(config) /\ Started(run)) =>
        \A p \in Paths : LessEq(Zero, run.cumulative_inflation_factors[p])

\* C6 as amended: for a valid configuration the inflation factor of a path
\* is >= 0 provided every growth rate drawn for that path is >= -1.
C6_FactorNonNegativeIfRatesAtLeastMinusOne ==
    (Valid(config) /\ Started(run)) =>
        \A p \in Paths :
            RatesAtLeastMinusOne(run, p) =>
                LessEq(Zero, run.cumulative_inflation_factors[p])

\* a returned path whose rates were all >= -1, one of them exactly -1
C6_Witness ==
    /\ Valid(config)
    /\ Finished(run)
    /\ \E p \in Paths :
          /\ RatesAtLeastMinusOne(run, p)
          /\ MinusOne \in GrowthRatesOf(run, p)
          /\ run.cumulative_inflation_factors[p] = Zero

\* C7: a path whose drawn growth rates all exceed -1 has a strictly positive
\* cumulative inflation factor after every year-step and on return.
C7_FactorPositiveIfRatesAboveMinusOne ==
    Started(run) =>
        \A p \in Paths :
            RatesAboveMinusOne(run, p) =>
                Less(Zero, run.cumulative_inflation_factors[p])

\* a returned path that drew a negative rate above -1
C7_Witness ==
    /\ Finished(run)
    /\ \E p \in Paths :
          /\ RatesAboveMinusOne(run, p)
          /\ \E g \in GrowthRatesOf(run, p) : Less(g, Zero)
          /\ Less(run.cumulative_inflation_factors[p], One)

\* C8: the terminal real value of a path is the last row of the matrix at
\* that path divided by the path's own factor: multiplied back by the factor
\* it gives the last row, and a zero factor gives inf, -inf or nan.
C8_RealValueDeflatedPerPath ==
    run.pc = "reported" =>
        /\ Len(report.final_portfolio_values_real) = config.num_simulations
        /\ \A p \in Paths :
              LET nominal == run.portfolio_values[config.num_years][p]
                  factor == run.cumulative_inflation_factors[p]
                  real == report.final_portfolio_values_real[p]
              IN  IF factor = Zero
                  THEN real = <<Sign(nominal[1]), 0>>
                  ELSE Times(real, factor) = nominal

\* two surviving paths with different factors were deflated
C8_Witness ==
    /\ run.pc = "reported"
    /\ \E p \in Paths : \E q \in Paths :
          /\ run.cumulative_inflation_factors[p] # run.cumulative_inflation_factors[q]
          /\ run.cumulative_inflation_factors[p] \notin {Zero, One}
          /\ run.cumulative_inflation_factors[q] \notin {Zero, One}
          /\ Less(Zero, report.final_portfolio_values[p])
          /\ Less(Zero, report.final_portfolio_values[q])
          /\ report.final_portfolio_values_real[p] # report.final_portfolio_values[p]

\* C9: two calls with the same configuration whose samples agree on path
\* focus and differ arbitrarily elsewhere have the same column focus of the
\* value matrix and the same entry focus of the inflation factors.
C9_PathsDoNotInteract ==
    (Started(run) /\ Started(twin)) =>
        /\ Column(run.portfolio_values, focus) = Column(twin.portfolio_values, focus)
        /\ run.cumulative_inflation_factors[focus] =
              twin.cumulative_inflation_factors[focus]

\* both calls returned, they differ off the focus path in values, withdrawals
\* and factors, and the focus path is still funded
C9_Witness ==
    /\ run.pc = "returned"
    /\ twin.pc = "returned"
    /\ config.num_years >= 3
    /\ \E q \in Paths \ {focus} :
          /\ Column(run.portfolio_values, q) # Column(twin.portfolio_values, q)
          /\ run.cumulative_inflation_factors[q] # twin.cumulative_inflation_factors[q]
          /\ run.withdrawal_growth_rates[1][q] # twin.withdrawal_growth_rates[1][q]
    /\ Less(Zero, run.portfolio_values[config.num_years][focus])

\* the paths whose value is positive in every year
AlwaysFunded ==
    {p \in Paths : \A t \in 1..config.num_years : Less(Zero, run.portfolio_values[t][p])}

\* C10: with an initial withdrawal >= 0, a path whose drawn growth rates are
\* all >= -1 stays at zero once it is at zero; for a valid configuration a
\* path with a positive terminal value was positive in every year, and when
\* this holds of every path the success rate is the share of such paths.
C10_ZeroIsAbsorbing ==
    (Started(run) /\ LessEq(Zero, config.withdrawal_value)) =>
        /\ \A p \in Paths :
              RatesAtLeastMinusOne(run, p) =>
                  /\ \A t \in 1..run.i : \A u \in 1..run.i :
                        (t < u /\ run.portfolio_values[t][p] = Zero) =>
                            run.portfolio_values[u][p] = Zero
                  /\ ( /\ Valid(config)
                       /\ run.pc = "reported"
                       /\ Less(Zero, report.final_portfolio_values[p]) ) =>
                            p \in AlwaysFunded
        /\ ( /\ Valid(config)
             /\ run.pc = "reported"
             /\ \A p \in Paths : RatesAtLeastMinusOne(run, p) ) =>
                Times(report.success_rate, Rat(config.num_simulations, 1)) =
                    Rat(100 * Cardinality(AlwaysFunded), 1)

\* a reported run in which one path ran dry before the last year and stayed
\* at zero while another path ended above zero
C10_Witness ==
    /\ Valid(config)
    /\ run.pc = "reported"
    /\ config.num_years >= 3
    /\ Less(Zero, config.withdrawal_value)
    /\ \A p \in Paths : RatesAtLeastMinusOne(run, p)
    /\ \E p \in Paths : \E q \in Paths :
          /\ Less(Zero, run.portfolio_values[1][p])
          /\ run.portfolio_values[2][p] = Zero
          /\ run.portfolio_values[config.num_years][p] = Zero
          /\ Less(Zero, report.final_portfolio_values[q])
          /\ report.success_rate = Rat(50, 1)

=============================================================================
